---- MODULE Spec2Model ----
(***************************************************************************)
(* docktor: the Bundle Reader (src/mac_app.rs, MacApp::from_path) and the  *)
(* Dock Model (src/dock.rs, Dock / DockItem and their serde mapping to the *)
(* com.apple.dock property list).                                          *)
(*                                                                         *)
(* Strings the code looks into (paths, names, URLs) are sequences of       *)
(* one-character strings; strings the code only compares (plist keys,      *)
(* tile-type tags, bundle identifiers) are plain TLA+ strings.             *)
(* A property-list dictionary is a function whose DOMAIN is the set of     *)
(* keys present in the document.                                           *)
(***************************************************************************)
EXTENDS Integers, Sequences, FiniteSets, TLC

VARIABLES
    req,      \* Bundle Reader: the path handed to from_path and the file system under it
    res,      \* Bundle Reader: None before the call, then the Result<MacApp> it returned
    opened,   \* Bundle Reader: whether the call opened Contents/Info.plist
    doc,      \* Dock Model: the property list stored in com.apple.dock.plist
    dock,     \* Dock Model: None before Dock::load, then the Result<Dock>, mutated by add_app
    last      \* Dock Model: the last operation, its argument and the Dock before it

vars == <<req, res, opened, doc, dock, last>>

(***************************************************************************)
(* Bounds                                                                  *)
(***************************************************************************)
MaxPieces == 5      \* pieces a bundle path's tail is built from
MaxDocLen == 2      \* entries of persistent-apps in the stored document
MaxOthersLen == 1   \* entries of persistent-others in the stored document
MaxApps == 3        \* add_app is not called on a longer applications list

(***************************************************************************)
(* Option<T>                                                               *)
(***************************************************************************)
None == [some |-> FALSE]
Some(x) == [some |-> TRUE, v |-> x]

\* Option::or
OptOr(a, b) == IF a.some THEN a ELSE b

(***************************************************************************)
(* Strings                                                                 *)
(***************************************************************************)
S_app == <<"a", "p", "p">>
S_dot_app == <<".", "a", "p", "p">>
S_Foo == <<"F", "o", "o">>
S_file_scheme == <<"f", "i", "l", "e", ":", "/", "/">>
S_Applications == <<"/", "A", "p", "p", "l", "i", "c", "a", "t", "i", "o", "n", "s">>
S_FooApp == <<"F", "o", "o", " ", "A", "p", "p">>
S_FooName == <<"F", "o", "o", "N", "a", "m", "e">>

EndsWith(s, suf) ==
    /\ Len(s) >= Len(suf)
    /\ SubSeq(s, Len(s) - Len(suf) + 1, Len(s)) = suf

\* str::trim_end_matches: removes the suffix for as long as it matches
RECURSIVE trim_end_matches(_, _)
trim_end_matches(s, pat) ==
    IF pat # <<>> /\ EndsWith(s, pat)
    THEN trim_end_matches(SubSeq(s, 1, Len(s) - Len(pat)), pat)
    ELSE s

(***************************************************************************)
(* std::path::Path, as far as from_path uses it                            *)
(***************************************************************************)
RECURSIVE SplitAt(_, _, _)
SplitAt(s, i, cur) ==
    IF i > Len(s) THEN <<cur>>
    ELSE IF s[i] = "/" THEN <<cur>> \o SplitAt(s, i + 1, <<>>)
    ELSE SplitAt(s, i + 1, Append(cur, s[i]))

\* Path::components of an absolute path: empty and "." components are dropped
components(path) ==
    SelectSeq(SplitAt(path, 1, <<>>), LAMBDA c : c # <<>> /\ c # <<".">>)

\* Path::file_name: None when the path ends in ".." or has no component
file_name(path) ==
    LET cs == components(path) IN
    IF cs = <<>> THEN None
    ELSE IF cs[Len(cs)] = <<".", ".">> THEN None
    ELSE Some(cs[Len(cs)])

LastDot(file) ==
    LET ds == {i \in 1..Len(file) : file[i] = "."} IN
    IF ds = {} THEN 0 ELSE CHOOSE i \in ds : \A j \in ds : j <= i

\* std's rsplit_file_at_dot: (before, after) around the last dot
rsplit_file_at_dot(file) ==
    LET ld == LastDot(file) IN
    IF file = <<".", ".">> THEN [before |-> Some(file), after |-> None]
    ELSE IF ld = 0 THEN [before |-> None, after |-> Some(file)]
    ELSE IF ld = 1 THEN [before |-> Some(file), after |-> None]
    ELSE [before |-> Some(SubSeq(file, 1, ld - 1)),
          after |-> Some(SubSeq(file, ld + 1, Len(file)))]

\* Path::extension
extension(path) ==
    LET fn == file_name(path) IN
    IF ~fn.some THEN None
    ELSE LET ba == rsplit_file_at_dot(fn.v) IN
         IF ba.before.some THEN ba.after ELSE None

\* Path::file_stem
file_stem(path) ==
    LET fn == file_name(path) IN
    IF ~fn.some THEN None
    ELSE LET ba == rsplit_file_at_dot(fn.v) IN OptOr(ba.before, ba.after)

(***************************************************************************)
(* Bundle Reader: MacApp::from_path                                        *)
(***************************************************************************)
Ok(x) == [ok |-> TRUE, v |-> x]
Err(e) == [ok |-> FALSE, err |-> e]

\* serde's view of an Info.plist dictionary: a missing key is None
InfoPlist(dict) ==
    [bundle_id |-> IF "CFBundleIdentifier" \in DOMAIN dict
                   THEN Some(dict["CFBundleIdentifier"]) ELSE None,
     display_name |-> IF "CFBundleDisplayName" \in DOMAIN dict
                      THEN Some(dict["CFBundleDisplayName"]) ELSE None,
     name |-> IF "CFBundleName" \in DOMAIN dict
              THEN Some(dict["CFBundleName"]) ELSE None]

\* validation that rejects only when both tests fail
InvalidPath_and(path, exists) ==
    /\ ~exists
    /\ LET ext == extension(path) IN IF ext.some THEN ext.v # S_app ELSE TRUE

\* validation that forgets the extension test
InvalidPath_exists_only(path, exists) == ~exists

\* the basic validation of from_path: TRUE when the path is rejected
InvalidPath(path, exists) ==
    \/ ~exists
    \/ LET ext == extension(path) IN IF ext.some THEN ext.v # S_app ELSE TRUE

\* the third display-name source: the file stem with ".app" trimmed off its end
StemName(path) ==
    LET st == file_stem(path) IN
    IF st.some THEN Some(trim_end_matches(st.v, S_dot_app)) ELSE None

\* the fallback chain with CFBundleName consulted first
DisplayName_name_first(path, info) ==
    OptOr(OptOr(info.name, info.display_name), StemName(path))

\* display_name.or(name).or_else(stem)
DisplayName(path, info) ==
    OptOr(OptOr(info.display_name, info.name), StemName(path))

\* a missing identifier replaced by the empty string
BundleId_or_default(info) == OptOr(info.bundle_id, Some(""))

\* bundle_id.with_context(..)?
BundleId(info) == info.bundle_id

\* from_path(path) on a file system where the path exists or not and the
\* descriptor is unreadable, malformed or a dictionary; returns the Result
\* and whether Contents/Info.plist was opened
from_path(path, exists, desc) ==
    IF InvalidPath(path, exists)
    THEN [res |-> Err("InvalidBundle"), opened |-> FALSE]
    ELSE IF desc.state = "unreadable"
    THEN [res |-> Err("DescriptorUnreadable"), opened |-> TRUE]
    ELSE IF desc.state = "malformed"
    THEN [res |-> Err("DescriptorMalformed"), opened |-> TRUE]
    ELSE LET info == InfoPlist(desc.dict)
             dn == DisplayName(path, info)
             bid == BundleId(info) IN
         IF ~dn.some THEN [res |-> Err("MissingDisplayName"), opened |-> TRUE]
         ELSE IF ~bid.some THEN [res |-> Err("MissingBundleId"), opened |-> TRUE]
         ELSE [res |-> Ok([path |-> path, display_name |-> dn.v, bundle_id |-> bid.v]),
               opened |-> TRUE]

\* ---- inputs of the Bundle Reader ----
FooBundle == S_Applications \o <<"/">> \o S_Foo \o S_dot_app
Pieces == {S_Foo, <<".">>, S_app, <<"/">>}

RECURSIVE Concat(_)
Concat(ss) == IF ss = <<>> THEN <<>> ELSE Head(ss) \o Concat(Tail(ss))

PieceSeqs == UNION {[1..n -> Pieces] : n \in 0..MaxPieces}

\* bundle paths: /Applications/<tail>
Paths == {S_Applications \o <<"/">> \o Concat(ps) : ps \in PieceSeqs}

InfoValue ==
    [k \in {"CFBundleIdentifier", "CFBundleDisplayName", "CFBundleName"} |->
        CASE k = "CFBundleIdentifier" -> "com.example.Foo"
          [] k = "CFBundleDisplayName" -> S_FooApp
          [] k = "CFBundleName" -> S_FooName]

Descriptors ==
    {[state |-> "unreadable"], [state |-> "malformed"]} \cup
    {[state |-> "ok", dict |-> [k \in K |-> InfoValue[k]]] :
        K \in SUBSET {"CFBundleIdentifier", "CFBundleDisplayName", "CFBundleName"}}

\* a path that does not exist has no descriptor to read
FileSystems ==
    {[exists |-> FALSE, desc |-> [state |-> "unreadable"]]} \cup
    {[exists |-> TRUE, desc |-> d] : d \in Descriptors}

NoReq == [path |-> <<>>, exists |-> FALSE, desc |-> [state |-> "unreadable"]]

EmptyDoc == << >>
NoOp == [op |-> "none"]

\* the Bundle Reader is handed one path on one file system
InitReader ==
    /\ req \in {[path |-> p, exists |-> fs.exists, desc |-> fs.desc] :
                    p \in Paths, fs \in FileSystems}
    /\ res = None
    /\ opened = FALSE
    /\ doc = EmptyDoc
    /\ dock = None
    /\ last = NoOp

FromPath ==
    /\ ~res.some
    /\ LET r == from_path(req.path, req.exists, req.desc) IN
        /\ res' = Some(r.res)
        /\ opened' = r.opened
    /\ UNCHANGED <<req, doc, dock, last>>

NextReader == FromPath

SpecReader == InitReader /\ [][NextReader]_vars

(***************************************************************************)
(* Dock Model: the serde mapping between the property list and Dock        *)
(***************************************************************************)
\* DockItemKind, Deserialize: kebab-case tags, any other tag is Unknown
KindOfTag(tag) ==
    CASE tag = "file-tile" -> "FileTile"
      [] tag = "directory-tile" -> "DirectoryTile"
      [] tag = "spacer-tile" -> "SpacerTile"
      [] OTHER -> "Unknown"

\* the variant names written without rename_all
TagOfKind_no_rename(kind) == kind

\* DockItemKind, Serialize: the variant's kebab-case name
TagOfKind(kind) ==
    CASE kind = "FileTile" -> "file-tile"
      [] kind = "DirectoryTile" -> "directory-tile"
      [] kind = "SpacerTile" -> "spacer-tile"
      [] kind = "Unknown" -> "unknown"

\* a field of type Option<T>: the key may be missing
OptKey(d, k) == IF k \in DOMAIN d THEN Some(d[k]) ELSE None

\* FileLocation, Deserialize: both keys are required
ValidFileLocation(d) ==
    /\ "_CFURLString" \in DOMAIN d
    /\ "_CFURLStringType" \in DOMAIN d

DecodeFileLocation(d) ==
    [url |-> d["_CFURLString"], url_type |-> d["_CFURLStringType"]]

\* TileMetadata, Deserialize: three optional keys
ValidTileMetadata(d) ==
    "file-data" \in DOMAIN d => ValidFileLocation(d["file-data"])

DecodeTileMetadata(d) ==
    [location |-> IF "file-data" \in DOMAIN d
                  THEN Some(DecodeFileLocation(d["file-data"])) ELSE None,
     display_name |-> OptKey(d, "file-label"),
     bundle_id |-> OptKey(d, "bundle-identifier")]

\* DockItem, Deserialize: tile-data and tile-type are required
ValidDockItem(d) ==
    /\ "tile-data" \in DOMAIN d
    /\ "tile-type" \in DOMAIN d
    /\ ValidTileMetadata(d["tile-data"])

DecodeDockItem(d) ==
    [metadata |-> DecodeTileMetadata(d["tile-data"]),
     kind |-> KindOfTag(d["tile-type"])]

ValidItems(ds) == \A i \in 1..Len(ds) : ValidDockItem(ds[i])
DecodeItems(ds) == [i \in 1..Len(ds) |-> DecodeDockItem(ds[i])]

\* Dock, Deserialize: two optional lists
ValidDock(d) ==
    /\ "persistent-apps" \in DOMAIN d => ValidItems(d["persistent-apps"])
    /\ "persistent-others" \in DOMAIN d => ValidItems(d["persistent-others"])

DecodeDock(d) ==
    [applications |-> IF "persistent-apps" \in DOMAIN d
                      THEN Some(DecodeItems(d["persistent-apps"])) ELSE None,
     others |-> IF "persistent-others" \in DOMAIN d
                THEN Some(DecodeItems(d["persistent-others"])) ELSE None]

\* Dock::load, from the parse on: Result<Dock>
load(d) == IF ValidDock(d) THEN Ok(DecodeDock(d)) ELSE Err("Malformed")

\* a dictionary entry for a Some field, none for a None field
Entry(k, opt) == IF opt.some THEN k :> opt.v ELSE << >>

\* FileLocation, Serialize
EncodeFileLocation(loc) ==
    ("_CFURLString" :> loc.url) @@ ("_CFURLStringType" :> loc.url_type)

\* TileMetadata, Serialize
EncodeTileMetadata(m) ==
    (IF m.location.some
     THEN "file-data" :> EncodeFileLocation(m.location.v) ELSE << >>)
    @@ Entry("file-label", m.display_name)
    @@ Entry("bundle-identifier", m.bundle_id)

\* DockItem, Serialize
EncodeDockItem(item) ==
    ("tile-data" :> EncodeTileMetadata(item.metadata))
    @@ ("tile-type" :> TagOfKind(item.kind))

EncodeItems(items) == [i \in 1..Len(items) |-> EncodeDockItem(items[i])]

\* Dock, Serialize
serialize(d) ==
    (IF d.applications.some
     THEN "persistent-apps" :> EncodeItems(d.applications.v) ELSE << >>)
    @@ (IF d.others.some
        THEN "persistent-others" :> EncodeItems(d.others.v) ELSE << >>)

(***************************************************************************)
(* Dock Model: DockItem::new and Dock::add_app                             *)
(***************************************************************************)
\* Path::display
display(path) == path

FILE_URL_TYPE == 15

DockItem_new(app) ==
    [kind |-> "FileTile",
     metadata |-> [location |-> Some([url |-> S_file_scheme \o display(app.path),
                                      url_type |-> FILE_URL_TYPE]),
                   display_name |-> Some(app.display_name),
                   bundle_id |-> Some(app.bundle_id)]]

\* add_app that skips an application already in the list
add_app_dedup(d, app) ==
    LET apps == IF d.applications.some THEN d.applications.v ELSE <<>> IN
    IF \E i \in 1..Len(apps) : apps[i] = DockItem_new(app)
    THEN [d EXCEPT !.applications = Some(apps)]
    ELSE [d EXCEPT !.applications = Some(Append(apps, DockItem_new(app)))]

\* add_app without the initialisation of an absent list
add_app_no_init(d, app) ==
    IF d.applications.some
    THEN [d EXCEPT !.applications = Some(Append(d.applications.v, DockItem_new(app)))]
    ELSE d

\* add_app that pushes onto the other list
add_app_to_others(d, app) ==
    LET apps == IF d.applications.some THEN d.applications.v ELSE <<>>
        oths == IF d.others.some THEN d.others.v ELSE <<>> IN
    [d EXCEPT !.applications = Some(Append(apps, DockItem_new(app))),
              !.others = Some(Append(oths, DockItem_new(app)))]

add_app(d, app) ==
    LET apps == IF d.applications.some THEN d.applications.v ELSE <<>> IN
    [d EXCEPT !.applications = Some(Append(apps, DockItem_new(app)))]

\* ---- inputs of the Dock Model ----
AppBundle == S_Applications \o <<"/">> \o S_app \o S_dot_app

\* the applications handed to add_app are results of from_path
Apps ==
    {from_path(FooBundle, TRUE, [state |-> "ok", dict |-> InfoValue]).res.v,
     from_path(AppBundle, TRUE,
               [state |-> "ok", dict |-> ("CFBundleIdentifier" :> "com.example.app")]).res.v}

FooUrl == S_file_scheme \o FooBundle

Tags == {"file-tile", "directory-tile", "spacer-tile", "url-tile"}

EmptyTileData == << >>

FullTileData ==
    ("file-data" :> (("_CFURLString" :> FooUrl) @@ ("_CFURLStringType" :> 15)))
        @@ ("file-label" :> S_FooApp) @@ ("bundle-identifier" :> "com.example.Foo")

UnlabelledTileData ==
    ("file-data" :> (("_CFURLString" :> FooUrl) @@ ("_CFURLStringType" :> 0)))
        @@ ("bundle-identifier" :> "com.example.Foo")

\* entries the decoder rejects: a missing tile-type, a file-data without its type
BadItems ==
    {("tile-data" :> << >>),
     ("tile-data" :> ("file-data" :> ("_CFURLString" :> FooUrl)))
        @@ ("tile-type" :> "file-tile")}

Items ==
    {("tile-data" :> EmptyTileData) @@ ("tile-type" :> tag) : tag \in Tags}
    \cup {("tile-data" :> FullTileData) @@ ("tile-type" :> "file-tile")}
    \cup {("tile-data" :> UnlabelledTileData) @@ ("tile-type" :> tag) :
             tag \in {"file-tile", "url-tile"}}
    \cup BadItems

ItemLists(n) == UNION {[1..k -> Items] : k \in 0..n}

Documents ==
    {a @@ o : a \in {<< >>} \cup {"persistent-apps" :> l : l \in ItemLists(MaxDocLen)},
              o \in {<< >>} \cup {"persistent-others" :> l : l \in ItemLists(MaxOthersLen)}}

Init ==
    /\ req = NoReq
    /\ res = None
    /\ opened = FALSE
    /\ doc \in Documents
    /\ dock = None
    /\ last = NoOp

\* Dock::load on the stored document
Load ==
    /\ dock' = Some(load(doc))
    /\ last' = [op |-> "load"]
    /\ UNCHANGED <<req, res, opened, doc>>

\* dock.add_app(&app)
AddApp ==
    /\ dock.some /\ dock.v.ok
    /\ dock.v.v.applications.some => Len(dock.v.v.applications.v) < MaxApps
    /\ \E app \in Apps :
        /\ dock' = Some(Ok(add_app(dock.v.v, app)))
        /\ last' = [op |-> "add_app", app |-> app, before |-> dock.v.v]
    /\ UNCHANGED <<req, res, opened, doc>>

\* the Dock is serialized back into the stored document
Serialize ==
    /\ dock.some /\ dock.v.ok
    /\ doc' = serialize(dock.v.v)
    /\ last' = [op |-> "serialize", src |-> doc, clean |-> last.op = "load"]
    /\ UNCHANGED <<req, res, opened, dock>>

Next == Load \/ AddApp \/ Serialize

Spec == Init /\ [][Next]_vars

(***************************************************************************)
(* Dock Model: properties, checked under Spec                              *)
(***************************************************************************)
Loaded == dock.some /\ dock.v.ok
Added == last.op = "add_app"
ListOf(opt) == IF opt.some THEN opt.v ELSE <<>>
AppsNow == dock.v.v.applications
AppsBefore == last.before.applications
\* the entry the specification prescribes for an application
EntryFor(app, item) ==
    /\ item.kind = "FileTile"
    /\ item.metadata.bundle_id = Some(app.bundle_id)
    /\ item.metadata.display_name = Some(app.display_name)
    /\ item.metadata.location.some
    /\ item.metadata.location.v.url = S_file_scheme \o app.path
    /\ item.metadata.location.v.url_type = 15

\* C1: add_app leaves applications one element longer (Absent counted as 0),
\* keeps the earlier entries and their positions, and the new last element is
\* the file-tile entry of the application (bundle_id, display_name,
\* url = "file://" + path, url_type = 15), also when an identical entry was
\* already there.
C1_AppendInvariant ==
    Added =>
        /\ AppsNow.some
        /\ Len(AppsNow.v) = Len(ListOf(AppsBefore)) + 1
        /\ \A i \in 1..Len(ListOf(AppsBefore)) : AppsNow.v[i] = AppsBefore.v[i]
        /\ EntryFor(last.app, AppsNow.v[Len(AppsNow.v)])

\* an entry equal to the new one was already in the list: now there are two
C1_Witness ==
    /\ Added
    /\ Len(AppsNow.v) = 3
    /\ AppsNow.v[2] = AppsNow.v[3]
    /\ AppsNow.v[1] # AppsNow.v[3]
    /\ EntryFor(last.app, AppsNow.v[2])

\* C2: add_app on an Absent applications list yields Present with exactly the
\* one new entry; no add_app step makes applications Absent or shorter.
C2_AbsentToPresent ==
    [][(last'.op = "add_app") =>
          LET old == dock.v.v.applications
              new == dock'.v.v.applications IN
          /\ dock'.some /\ dock'.v.ok
          /\ new.some
          /\ ~old.some => (Len(new.v) = 1 /\ EntryFor(last'.app, new.v[1]))
          /\ old.some => Len(new.v) > Len(old.v)]_vars

C2_Witness ==
    /\ Added
    /\ ~AppsBefore.some
    /\ AppsNow = Some(<<AppsNow.v[1]>>)
    /\ EntryFor(last.app, AppsNow.v[1])

\* C3: round trip: for a document D that loads, loading what serialize wrote
\* for load(D) gives load(D) again, in both lists (absent, empty or not, in
\* order), every entry's kind and every metadata field.
C3_RoundTrip ==
    (last.op = "serialize" /\ last.clean) =>
        /\ dock.v = load(last.src)
        /\ load(doc) = load(last.src)

C3_Witness ==
    /\ last.op = "serialize" /\ last.clean
    /\ ~AppsNow.some
    /\ dock.v.v.others.some
    /\ Len(dock.v.v.others.v) = 1
    /\ dock.v.v.others.v[1].kind = "Unknown"
    /\ dock.v.v.others.v[1].metadata.location.some
    /\ ~dock.v.v.others.v[1].metadata.display_name.some
    /\ load(doc) = dock.v

SameTags(d, e) ==
    /\ DOMAIN d = DOMAIN e
    /\ \A k \in DOMAIN d :
          /\ Len(d[k]) = Len(e[k])
          /\ \A i \in 1..Len(d[k]) : d[k][i]["tile-type"] = e[k][i]["tile-type"]

\* C4: an entry with an unrecognized tile-type loads without error as the
\* unknown variant, and serializing the loaded configuration writes the
\* entry's original tile-type again.
C4_UnknownTagReemitted ==
    (last.op = "serialize" /\ last.clean) =>
        /\ load(last.src).ok
        /\ SameTags(last.src, doc)

\* C8: add_app leaves others as it was (Absent stays Absent, a list keeps its
\* entries in order), so others is what the stored document holds, and the
\* application handed in is one of the unmodified inputs.
C8_OthersUntouched ==
    /\ Added => (dock.v.v.others = last.before.others /\ last.app \in Apps)
    /\ Loaded => dock.v.v.others = load(doc).v.others

C8_Witness ==
    /\ Added
    /\ Len(AppsNow.v) = 2
    /\ dock.v.v.others.some
    /\ Len(dock.v.v.others.v) = 1
    /\ dock.v.v.others.v[1].kind = "DirectoryTile"
    /\ last.before.others = dock.v.v.others

(***************************************************************************)
(* Bundle Reader: properties, checked under SpecReader                     *)
(***************************************************************************)
Returned == res.some
HasKey(k) == req.desc.state = "ok" /\ k \in DOMAIN req.desc.dict
NoNames == /\ req.desc.state = "ok"
           /\ "CFBundleDisplayName" \notin DOMAIN req.desc.dict
           /\ "CFBundleName" \notin DOMAIN req.desc.dict
IsPrefix(s, t) == Len(s) <= Len(t) /\ SubSeq(t, 1, Len(s)) = s
LastComponent == file_name(req.path)
\* the last path component reads <something>.app
CarriesAppExtension == LastComponent.some /\ EndsWith(LastComponent.v, S_dot_app)

\* C5: a successful from_path takes display_name from CFBundleDisplayName when
\* that key is present, from CFBundleName only when CFBundleDisplayName is
\* absent, and from the bundle's file name only when both are absent;
\* /Applications/Foo.app with neither key gives "Foo".
C5_DisplayNameFirstMatchWins ==
    (Returned /\ res.v.ok) =>
        LET dn == res.v.v.display_name IN
        /\ HasKey("CFBundleDisplayName") => dn = req.desc.dict["CFBundleDisplayName"]
        /\ (~HasKey("CFBundleDisplayName") /\ HasKey("CFBundleName"))
              => dn = req.desc.dict["CFBundleName"]
        /\ NoNames => IsPrefix(dn, LastComponent.v)
        /\ (NoNames /\ req.path = FooBundle) => dn = S_Foo

C5_Witness ==
    /\ Returned /\ res.v.ok /\ NoNames
    /\ req.path = FooBundle
    /\ res.v.v.display_name = S_Foo

\* C6: when the path passed validation and the descriptor was read but has no
\* CFBundleIdentifier, from_path fails with the missing-bundle-identifier
\* error and returns no application, whatever name keys are present.
C6_MissingIdentifierRejected ==
    (Returned /\ opened /\ req.desc.state = "ok" /\ ~HasKey("CFBundleIdentifier"))
        => (~res.v.ok /\ res.v.err = "MissingBundleId")

C6_Witness ==
    /\ Returned /\ opened
    /\ HasKey("CFBundleDisplayName") /\ HasKey("CFBundleName")
    /\ ~HasKey("CFBundleIdentifier")
    /\ res.v = Err("MissingBundleId")

\* C7: from_path fails with the invalid-bundle error whenever the path does
\* not exist or its last component lacks the .app extension, and then never
\* opens Contents/Info.plist; the descriptor is opened only for a path that
\* exists and carries the extension.
C7_InvalidBundleBeforeOpen ==
    Returned =>
        /\ (~req.exists \/ ~CarriesAppExtension)
              => (res.v = Err("InvalidBundle") /\ ~opened)
        /\ opened => (req.exists /\ CarriesAppExtension)
        /\ (~res.v.ok /\ res.v.err = "InvalidBundle") => ~opened

C7_Witness ==
    /\ Returned /\ ~req.exists /\ CarriesAppExtension
    /\ res.v = Err("InvalidBundle") /\ ~opened

\* C9: when the file name is the display-name source, display_name is the
\* last path component with exactly one trailing ".app" removed
\* (/Applications/Foo.app.app gives "Foo.app").
C9_StemOnlyLosesOneExtension ==
    (Returned /\ res.v.ok /\ NoNames)
        => res.v.v.display_name \o S_dot_app = LastComponent.v

\* C10: a path accepted by the validation always has a file stem, so the
\* missing-display-name error is never returned; after validation the only
\* failures are an unreadable or malformed descriptor and a missing bundle
\* identifier.
C10_DisplayNameAlwaysResolves ==
    Returned =>
        /\ opened => file_stem(req.path).some
        /\ ~res.v.ok => res.v.err \in {"InvalidBundle", "DescriptorUnreadable",
                                       "DescriptorMalformed", "MissingBundleId"}
        /\ (opened /\ ~res.v.ok) => res.v.err \in {"DescriptorUnreadable",
                                       "DescriptorMalformed", "MissingBundleId"}

C10_Witness ==
    /\ Returned /\ opened /\ NoNames /\ res.v.ok
    /\ req.path # FooBundle
    /\ res.v.v.display_name = S_Foo

====
